---- MODULE Spec2Model ----
(***************************************************************************)
(* The picture processing unit of game-girl (core/src/ppu/mod.rs): the     *)
(* memory-mapped decoder for writes and reads, the update step that drives *)
(* the LCD mode state machine and derives the STAT interrupt, the colour   *)
(* palette registers, and the per-scanline compositing of background,      *)
(* window and sprites into the frame buffer.                               *)
(***************************************************************************)
EXTENDS Integers, Sequences, FiniteSets, TLC

VARIABLES
    vram_bank,          \* PPU.vram_bank
    io,                 \* PPU.io, a zero-initialised byte array kept sparse
    screen_buffer,      \* PPU.screen_buffer, one entry per rendered row
    tiles,              \* PPU.tiles, sparse, indexed by tile * 16 + byte
    tile_maps,          \* PPU.tile_maps, sparse, indexed by <<field, cell>>
    oam,                \* PPU.oam, sparse, indexed by byte offset in the table
    last_wndw_line,     \* PPU.last_wndw_line, <<>> for None and <<n>> for Some(n)
    cgb_bg_pal_data,    \* PPU.cgb_bg_pal_data, sparse
    cgb_spr_pal_data,   \* PPU.cgb_spr_pal_data, sparse
    lcd_mode,           \* PPU.lcd_mode, the Lcd state machine
    panicked,           \* a fatal assertion or index fault has ended the program
    overflow_checks,    \* the build traps on integer overflow (debug) or wraps (release)
    op,                 \* the operation that produced this state
    interrupt,          \* PpuUpdateResult.interrupt of the last update
    ly_irq,             \* what set_ly returned inside the last update
    pre,                \* STAT, LY, scanline and mode as they were before the last operation
    w,                  \* address, value and hardware variant of the last write
    run,                \* the update calls made so far at the current scanline
    wr_pending,         \* a register write happened since the last update call
    had_update,         \* update has been called at least once
    n_writes,           \* register writes issued so far
    oam_ptr,            \* the driver's position while it fills the object table
    prev,               \* the PPU as it was before the last operation
    rd,                 \* arguments and result of the last read_vram call
    all_dmg,            \* every write so far was issued with the DMG variant
    frame,              \* what the last render_screen call returned
    frame_no,           \* the frames the state machine has completed
    written             \* the byte last written to each VRAM address under each bank

vars == << vram_bank, io, screen_buffer, tiles, tile_maps, oam, last_wndw_line,
           cgb_bg_pal_data, cgb_spr_pal_data, lcd_mode, panicked, overflow_checks,
           op, interrupt,
           ly_irq, pre, w, run, wr_pending, had_update, n_writes, oam_ptr,
           prev, rd, all_dmg, frame, frame_no, written >>

ghost == << prev, rd, all_dmg, frame, frame_no, written >>

(***************************************************************************)
(* Constants of ppu/mod.rs                                                 *)
(***************************************************************************)
LCDC == 65344
STAT == 65345
SCY == 65346
SCX == 65347
LY == 65348
LYC == 65349
BGP == 65351
OBP0 == 65352
OBP1 == 65353
WY == 65354
WX == 65355
VBK == 65359
BGPI == 65384
BGPD == 65385
OBPI == 65386
OBPD == 65387

TILE_SET == 32768
TILE_SET_END == 38911
TILE_MAP == 38912
TILE_MAP_END == 40959
OAM_START == 65024
OAM_END == 65183
IO_START == 65280
IO_END == 65407

MAP_SIZE == 32
VRAM_BANK_NUM == 2
TILE_MAP_TBL_SIZE == 1024
TILE_NUM == 384
OAM_SPR_NUM == 40
SPR_PER_LINE == 10
CGB_BG_PAL_DATA_SIZE == 64
CGB_SPR_PAL_DATA_SIZE == 64

BG_DISP_BIT == 0
SPR_DISP_BIT == 1
SPR_SIZE_BIT == 2
BG_TILE_MAP_BIT == 3
BG_WNDW_TILE_DATA_BIT == 4
WNDW_DISP_BIT == 5
WNDW_TILE_MAP_BIT == 6
LCD_DISP_BIT == 7
AUTO_INC_BIT == 7
LYC_LY_FLAG_BIT == 2
HBLANK_INTERRUPT_BIT == 3
VBLANK_INTERRUPT_BIT == 4
OAM_INTERRUPT_BIT == 5
LYC_LY_INTERRUPT_BIT == 6

(***************************************************************************)
(* Constants of the modules the PPU uses (sprite, tile, mode, utils)       *)
(***************************************************************************)
OAM_BYTE_SIZE == 4
TILE_BYTES == 16
TILESIZE == 8
SCREEN_WIDTH == 160
SCREEN_HEIGHT == 144
LINE_CYCLES == 456
OAM_READ_LEN == 80
VRAM_READ_LEN == 172
VBLANK_START == 144
NUM_LINES == 154
CGB_PAL_SIZE == 8

DMG == "DMG"
CGB == "CGB"
None == << >>
Some(n) == << n >>

(***************************************************************************)
(* Bounds of the model                                                     *)
(***************************************************************************)
MaxWrites == 2
MaxSpr == 11
MaxMemWrites == 2
MaxCol == 15
MaxWinWrites == 3
MaxWinLines == 3
MaxPalWrites == 2
MaxLineWrites == 1
MaxLineRows == 2
MaxBankWrites == 3
MaxKeepWrites == 2
MaxIdleFrames == 2

(***************************************************************************)
(* Bytes and bits (utils: get_bit, set_bit, clear_bit; the u8 operators)   *)
(***************************************************************************)
Pow2(b) == 2 ^ b

get_bit(v, b) == (v \div Pow2(b)) % 2 = 1

set_bit(v, b) == IF get_bit(v, b) THEN v ELSE v + Pow2(b)

clear_bit(v, b) == IF get_bit(v, b) THEN v - Pow2(b) ELSE v

RECURSIVE BitOp(_, _, _, _)
BitOp(isOr, a, b, n) ==
    IF n = 0 THEN 0
    ELSE LET x == a % 2
             y == b % 2
             z == IF isOr THEN (IF x + y > 0 THEN 1 ELSE 0) ELSE x * y
         IN z + 2 * BitOp(isOr, a \div 2, b \div 2, n - 1)

BitOr(a, b) == BitOp(TRUE, a, b, 8)

BitAnd(a, b) == BitOp(FALSE, a, b, 8)

(***************************************************************************)
(* Zero-initialised arrays, kept as the function of their non-zero cells   *)
(***************************************************************************)
Rd(a, i) == IF i \in DOMAIN a THEN a[i] ELSE 0

Wr(a, i, v) ==
    IF v = 0
    THEN [j \in DOMAIN a \ {i} |-> a[j]]
    ELSE [j \in DOMAIN a \cup {i} |-> IF j = i THEN v ELSE a[j]]

Empty == [j \in {} |-> 0]

(***************************************************************************)
(* The PPU object as one record, and the variables it is stored in         *)
(***************************************************************************)
Self ==
    [vram_bank |-> vram_bank, io |-> io, screen_buffer |-> screen_buffer,
     tiles |-> tiles, tile_maps |-> tile_maps, oam |-> oam,
     last_wndw_line |-> last_wndw_line, cgb_bg_pal_data |-> cgb_bg_pal_data,
     cgb_spr_pal_data |-> cgb_spr_pal_data, lcd_mode |-> lcd_mode,
     panicked |-> panicked, overflow_checks |-> overflow_checks]

Commit(p) ==
    /\ vram_bank' = p.vram_bank
    /\ io' = p.io
    /\ screen_buffer' = p.screen_buffer
    /\ tiles' = p.tiles
    /\ tile_maps' = p.tile_maps
    /\ oam' = p.oam
    /\ last_wndw_line' = p.last_wndw_line
    /\ cgb_bg_pal_data' = p.cgb_bg_pal_data
    /\ cgb_spr_pal_data' = p.cgb_spr_pal_data
    /\ lcd_mode' = p.lcd_mode
    /\ panicked' = p.panicked

\* the byte stored in the register one past the one asked for
write_io_next(p, addr, val) ==
    [p EXCEPT !.io = Wr(p.io, addr - IO_START + 1, val)]

write_io(p, addr, val) == [p EXCEPT !.io = Wr(p.io, addr - IO_START, val)]

\* the register one past the one asked for
read_io_next(p, addr) == Rd(p.io, addr - IO_START + 1)

read_io(p, addr) == Rd(p.io, addr - IO_START)

(***************************************************************************)
(* The LCD mode state machine (ppu/mode.rs)                                *)
(***************************************************************************)
LcdNew == [cycles |-> 0, line |-> 0, mode |-> "OAMReadMode"]

get_idx(mode) ==
    CASE mode = "HBLANK" -> 0
      [] mode = "VBLANK" -> 1
      [] mode = "OAMReadMode" -> 2
      [] mode = "VRAMReadMode" -> 3

get_mode(lcd) == lcd.mode

get_scanline(lcd) == lcd.line

RECURSIVE advance_lines(_, _)
advance_lines(c, l) ==
    IF c >= LINE_CYCLES
    THEN advance_lines(c - LINE_CYCLES, (l + 1) % NUM_LINES)
    ELSE [cycles |-> c, line |-> l]

\* vertical blank entered one line late
mode_at_late_vblank(c, l) ==
    IF l > VBLANK_START THEN "VBLANK"
    ELSE IF c < OAM_READ_LEN THEN "OAMReadMode"
    ELSE IF c < OAM_READ_LEN + VRAM_READ_LEN THEN "VRAMReadMode"
    ELSE "HBLANK"

mode_at(c, l) ==
    IF l >= VBLANK_START THEN "VBLANK"
    ELSE IF c < OAM_READ_LEN THEN "OAMReadMode"
    ELSE IF c < OAM_READ_LEN + VRAM_READ_LEN THEN "VRAMReadMode"
    ELSE "HBLANK"

lcd_step(lcd, cycles) ==
    LET a == advance_lines(lcd.cycles + cycles, lcd.line)
    IN [cycles |-> a.cycles, line |-> a.line, mode |-> mode_at(a.cycles, a.line)]

(***************************************************************************)
(* update and set_ly                                                       *)
(***************************************************************************)
\* set_ly without the old_ly != line guard
set_ly_every_call(p) ==
    LET line == get_scanline(p.lcd_mode)
        p1 == IF line = 0 THEN [p EXCEPT !.last_wndw_line = None] ELSE p
        p2 == write_io(p1, LY, line)
        stat == read_io(p2, STAT)
    IN IF read_io(p2, LY) = read_io(p2, LYC)
       THEN [p |-> write_io(p2, STAT, set_bit(stat, LYC_LY_FLAG_BIT)),
             ret |-> get_bit(set_bit(stat, LYC_LY_FLAG_BIT), LYC_LY_INTERRUPT_BIT)]
       ELSE [p |-> write_io(p2, STAT, clear_bit(stat, LYC_LY_FLAG_BIT)),
             ret |-> FALSE]

\* set_ly that compares the new line with LYC but never stores it in LY
set_ly_no_store(p) ==
    LET line == get_scanline(p.lcd_mode)
        old_ly == read_io(p, LY)
    IN IF old_ly # line
       THEN LET p1 == IF line = 0 THEN [p EXCEPT !.last_wndw_line = None] ELSE p
                stat == read_io(p1, STAT)
            IN IF line = read_io(p1, LYC)
               THEN [p |-> write_io(p1, STAT, set_bit(stat, LYC_LY_FLAG_BIT)),
                     ret |-> get_bit(set_bit(stat, LYC_LY_FLAG_BIT), LYC_LY_INTERRUPT_BIT)]
               ELSE [p |-> write_io(p1, STAT, clear_bit(stat, LYC_LY_FLAG_BIT)),
                     ret |-> FALSE]
       ELSE [p |-> p, ret |-> FALSE]

set_ly(p) ==
    LET line == get_scanline(p.lcd_mode)
        old_ly == read_io(p, LY)
    IN IF old_ly # line
       THEN LET p1 == IF line = 0 THEN [p EXCEPT !.last_wndw_line = None] ELSE p
                p2 == write_io(p1, LY, line)
                stat == read_io(p2, STAT)
            IN IF read_io(p2, LY) = read_io(p2, LYC)
               THEN [p |-> write_io(p2, STAT, set_bit(stat, LYC_LY_FLAG_BIT)),
                     ret |-> get_bit(set_bit(stat, LYC_LY_FLAG_BIT), LYC_LY_INTERRUPT_BIT)]
               ELSE [p |-> write_io(p2, STAT, clear_bit(stat, LYC_LY_FLAG_BIT)),
                     ret |-> FALSE]
       ELSE [p |-> p, ret |-> FALSE]

mode_interrupt(old_mode, mode, stat) ==
    IF old_mode # mode
    THEN CASE mode = "HBLANK" -> get_bit(stat, HBLANK_INTERRUPT_BIT)
           [] mode = "VBLANK" -> get_bit(stat, VBLANK_INTERRUPT_BIT)
           [] mode = "VRAMReadMode" -> get_bit(stat, OAM_INTERRUPT_BIT)
           [] OTHER -> FALSE
    ELSE FALSE

\* the mode index or-ed in without clearing the old mode bits
stat_with_mode_no_clear(stat, mode) == BitOr(stat, get_idx(mode))

stat_with_mode(stat, mode) == BitOr(BitAnd(stat, 252), get_idx(mode))

update(p, cycles) ==
    LET old_mode == get_mode(p.lcd_mode)
        p1 == [p EXCEPT !.lcd_mode = lcd_step(p.lcd_mode, cycles)]
        r == set_ly(p1)
        stat == read_io(r.p, STAT)
        mode == get_mode(r.p.lcd_mode)
    IN [p |-> write_io(r.p, STAT, stat_with_mode(stat, mode)),
        interrupt |-> (r.ret \/ mode_interrupt(old_mode, mode, stat)),
        ly_irq |-> r.ret]

get_lcd_mode(p) == get_mode(p.lcd_mode)

(***************************************************************************)
(* write_vram                                                              *)
(***************************************************************************)
\* the written value or-ed in without masking its low three bits
write_stat_unmasked(stat, val) == BitOr(val, stat)

write_stat(stat, val) == BitOr(BitAnd(val, 248), stat)

\* the bank register taking the written byte as it is
set_vram_bank_raw(p, val) == [p EXCEPT !.vram_bank = val]

set_vram_bank(p, val) == [p EXCEPT !.vram_bank = IF get_bit(val, 0) THEN 1 ELSE 0]

\* bgpi + 1 is a u8 addition: it faults when overflow checks are compiled in
\* and wraps otherwise
inc_index(p, reg, idx) ==
    IF idx + 1 > 255 /\ p.overflow_checks
    THEN [p EXCEPT !.panicked = TRUE]
    ELSE write_io(p, reg, BitAnd((idx + 1) % 256, 191))

write_cgb_bg_color(p, val) ==
    LET bgpi == read_io(p, BGPI)
        p1 == [p EXCEPT !.cgb_bg_pal_data = Wr(@, BitAnd(bgpi, 63), val)]
    IN IF get_bit(bgpi, AUTO_INC_BIT) THEN inc_index(p1, BGPI, bgpi) ELSE p1

write_cgb_spr_color(p, val) ==
    LET obpi == read_io(p, OBPI)
        p1 == [p EXCEPT !.cgb_spr_pal_data = Wr(@, BitAnd(obpi, 63), val)]
    IN IF get_bit(obpi, AUTO_INC_BIT) THEN inc_index(p1, OBPI, obpi) ELSE p1

\* VBK selecting the bank whatever the hardware variant of the write
write_vram_any_variant(p, addr, val, mode) ==
    IF addr >= OAM_START /\ addr <= OAM_END
    THEN [p EXCEPT !.oam = Wr(@, addr - OAM_START, val)]
    ELSE IF addr >= TILE_SET /\ addr <= TILE_SET_END
    THEN LET offset == addr - TILE_SET
             tile_num == (offset \div TILE_BYTES) + p.vram_bank * TILE_NUM
             byte_num == offset % TILE_BYTES
         IN [p EXCEPT !.tiles = Wr(@, tile_num * TILE_BYTES + byte_num, val)]
    ELSE IF addr >= TILE_MAP /\ addr <= TILE_MAP_END
    THEN LET map_addr == addr - TILE_MAP
         IN IF p.vram_bank = 0
            THEN [p EXCEPT !.tile_maps = Wr(@, <<"tile_num", map_addr>>, val)]
            ELSE IF mode = DMG
                 THEN [p EXCEPT !.panicked = TRUE]
                 ELSE [p EXCEPT !.tile_maps = Wr(@, <<"metadata", map_addr>>, val)]
    ELSE IF addr >= IO_START /\ addr <= IO_END
    THEN CASE addr = STAT -> write_io(p, STAT, write_stat(read_io(p, STAT), val))
           [] addr = BGPD -> IF mode = CGB THEN write_cgb_bg_color(p, val)
                             ELSE write_io(p, addr, val)
           [] addr = OBPD -> IF mode = CGB THEN write_cgb_spr_color(p, val)
                             ELSE write_io(p, addr, val)
           [] addr = VBK -> set_vram_bank(p, val)
           [] OTHER -> write_io(p, addr, val)
    ELSE p

write_vram(p, addr, val, mode) ==
    IF addr >= OAM_START /\ addr <= OAM_END
    THEN [p EXCEPT !.oam = Wr(@, addr - OAM_START, val)]
    ELSE IF addr >= TILE_SET /\ addr <= TILE_SET_END
    THEN LET offset == addr - TILE_SET
             tile_num == (offset \div TILE_BYTES) + p.vram_bank * TILE_NUM
             byte_num == offset % TILE_BYTES
         IN [p EXCEPT !.tiles = Wr(@, tile_num * TILE_BYTES + byte_num, val)]
    ELSE IF addr >= TILE_MAP /\ addr <= TILE_MAP_END
    THEN LET map_addr == addr - TILE_MAP
         IN IF p.vram_bank = 0
            THEN [p EXCEPT !.tile_maps = Wr(@, <<"tile_num", map_addr>>, val)]
            ELSE IF mode = DMG
                 THEN [p EXCEPT !.panicked = TRUE]
                 ELSE [p EXCEPT !.tile_maps = Wr(@, <<"metadata", map_addr>>, val)]
    ELSE IF addr >= IO_START /\ addr <= IO_END
    THEN CASE addr = STAT -> write_io(p, STAT, write_stat(read_io(p, STAT), val))
           [] addr = BGPD -> IF mode = CGB THEN write_cgb_bg_color(p, val)
                             ELSE write_io(p, addr, val)
           [] addr = OBPD -> IF mode = CGB THEN write_cgb_spr_color(p, val)
                             ELSE write_io(p, addr, val)
           [] addr = VBK -> IF mode = CGB THEN set_vram_bank(p, val)
                            ELSE write_io(p, addr, val)
           [] OTHER -> write_io(p, addr, val)
    ELSE p

(***************************************************************************)
(* read_vram: the byte returned, or a fault when the call ends in a failed *)
(* assertion or an index out of range                                      *)
(***************************************************************************)
Returned(val) == [val |-> val, fault |-> FALSE]

Fault == [val |-> 0, fault |-> TRUE]

read_cgb_bg_color(p) ==
    LET ind == BitAnd(read_io(p, BGPI), 63)
    IN IF ind >= CGB_BG_PAL_DATA_SIZE THEN Fault
       ELSE Returned(Rd(p.cgb_bg_pal_data, ind))

read_cgb_spr_color(p) ==
    LET ind == BitAnd(read_io(p, OBPI), 127)
    IN IF ind >= CGB_SPR_PAL_DATA_SIZE THEN Fault
       ELSE Returned(Rd(p.cgb_spr_pal_data, ind))

\* the tile map arm answering for every bank without the variant assertion
read_tile_map_unchecked(p, map_addr, bank, mode) ==
    IF bank = 0
    THEN Returned(Rd(p.tile_maps, <<"tile_num", map_addr>>))
    ELSE Returned(Rd(p.tile_maps, <<"metadata", map_addr>>))

read_tile_map(p, map_addr, bank, mode) ==
    IF bank = 0
    THEN Returned(Rd(p.tile_maps, <<"tile_num", map_addr>>))
    ELSE IF mode = DMG
         THEN Fault
         ELSE Returned(Rd(p.tile_maps, <<"metadata", map_addr>>))

\* the fall-through arm answering with the low byte of the address
read_unused_echo(addr) == Returned(addr % 256)

read_unused(addr) == Returned(0)

read_vram(p, addr, bank_override, mode) ==
    LET bank == IF bank_override # None THEN bank_override[1] ELSE p.vram_bank
    IN IF addr >= OAM_START /\ addr <= OAM_END
       THEN Returned(Rd(p.oam, addr - OAM_START))
       ELSE IF addr >= TILE_SET /\ addr <= TILE_SET_END
       THEN LET offset == addr - TILE_SET
                tile_num == (offset \div TILE_BYTES) + ((bank * TILE_NUM) % 65536)
                byte_num == offset % TILE_BYTES
            IN IF tile_num >= VRAM_BANK_NUM * TILE_NUM THEN Fault
               ELSE Returned(Rd(p.tiles, tile_num * TILE_BYTES + byte_num))
       ELSE IF addr >= TILE_MAP /\ addr <= TILE_MAP_END
       THEN read_tile_map(p, addr - TILE_MAP, bank, mode)
       ELSE IF addr >= IO_START /\ addr <= IO_END
       THEN IF mode = CGB
            THEN CASE addr = BGPD -> read_cgb_bg_color(p)
                   [] addr = OBPD -> read_cgb_spr_color(p)
                   [] addr = VBK -> Returned(254 + p.vram_bank)
                   [] OTHER -> Returned(read_io(p, addr))
            ELSE Returned(read_io(p, addr))
       ELSE read_unused(addr)

(***************************************************************************)
(* Sprites (ppu/sprite.rs) and the order they are drawn in                 *)
(***************************************************************************)
spr_y(p, i) == Rd(p.oam, i * OAM_BYTE_SIZE)

spr_x(p, i) == Rd(p.oam, i * OAM_BYTE_SIZE + 1)

get_coords(p, i) == [x |-> spr_x(p, i) - 8, y |-> spr_y(p, i) - 16]

contains_scanline(p, i, line, is_8x16) ==
    LET top_y == get_coords(p, i).y
        height == IF is_8x16 THEN 2 * TILESIZE ELSE TILESIZE
    IN top_y <= line /\ line < top_y + height

is_onscreen(p, i) ==
    LET c == get_coords(p, i)
    IN /\ c.x > 0 - TILESIZE
       /\ c.x < SCREEN_WIDTH
       /\ c.y > 0 - 2 * TILESIZE
       /\ c.y < SCREEN_HEIGHT

Reverse(s) == [k \in 1..Len(s) |-> s[Len(s) + 1 - k]]

MaxOf(S) == CHOOSE m \in S : \A n \in S : n <= m

\* a stable sort of the sprites s by descending x: equal x keep the order of s
RECURSIVE stable_sort_desc(_, _, _)
stable_sort_desc(p, s, keys) ==
    IF keys = {} THEN << >>
    ELSE LET m == MaxOf(keys)
         IN SelectSeq(s, LAMBDA i : get_coords(p, i).x = m)
                \o stable_sort_desc(p, s, keys \ {m})

sort_sprites(p) ==
    LET sprites == Reverse([k \in 1..OAM_SPR_NUM |-> k - 1])
    IN stable_sort_desc(p, sprites,
                        {get_coords(p, i).x : i \in 0..(OAM_SPR_NUM - 1)})

is_lcd_dspl(p) == get_bit(read_io(p, LCDC), LCD_DISP_BIT)

is_bkgd_dspl(p, mode) ==
    IF mode # CGB THEN get_bit(read_io(p, LCDC), BG_DISP_BIT) ELSE TRUE

is_wndw_dspl(p) == get_bit(read_io(p, LCDC), WNDW_DISP_BIT)

is_sprt_dspl(p) == get_bit(read_io(p, LCDC), SPR_DISP_BIT)

spr_are_8x16(p) == get_bit(read_io(p, LCDC), SPR_SIZE_BIT)

get_wndw_coords(p) ==
    LET wx == read_io(p, WX)
    IN [x |-> IF wx < 7 THEN 0 ELSE wx - 7, y |-> read_io(p, WY)]

(***************************************************************************)
(* Pixels.  A pixel of a row is its RGBA colour together with the layer    *)
(* that wrote it last and the colour index that layer decoded from its     *)
(* tile.  Colours come from the system palette (ppu/palette.rs) on DMG and *)
(* from palette RAM through gbc2rgba (utils) on CGB.                       *)
(***************************************************************************)
MAP_PIXELS == MAP_SIZE * TILESIZE

\* a 5-bit channel widened to 8 bits by repeating its top bits: 0 -> 0, 31 -> 255
expand5(c) == c * 8 + (c \div 4)

gbc2rgba(low, high) ==
    LET v == low + 256 * high
    IN << expand5(v % 32), expand5((v \div 32) % 32),
          expand5((v \div 1024) % 32), 255 >>

\* the grayscale system palette: shade 0 is white, shade 3 is black
sys_pal(shade) == << 255 - 85 * shade, 255 - 85 * shade, 255 - 85 * shade, 255 >>

unpack_u8(v, i) == (v \div Pow2(2 * i)) % 4

\* Tile::get_row(row)[col]: bit 7 - col of the two bytes of the row
tile_pixel(p, tile, row, col) ==
    LET lo == Rd(p.tiles, tile * TILE_BYTES + 2 * row)
        hi == Rd(p.tiles, tile * TILE_BYTES + 2 * row + 1)
    IN (IF get_bit(hi, 7 - col) THEN 2 ELSE 0) + (IF get_bit(lo, 7 - col) THEN 1 ELSE 0)

get_tile_num(p, idx) == Rd(p.tile_maps, <<"tile_num", idx>>)

get_metadata(p, idx) == Rd(p.tile_maps, <<"metadata", idx>>)

get_pal_num(meta) == meta % 8

get_vram_bank(meta) == IF get_bit(meta, 3) THEN 1 ELSE 0

is_x_flip(meta) == get_bit(meta, 5)

is_y_flip(meta) == get_bit(meta, 6)

is_bg_priority(meta) == get_bit(meta, 7)

get_bkgd_wndw_tile_set_index(p) ==
    IF get_bit(read_io(p, LCDC), BG_WNDW_TILE_DATA_BIT) THEN 1 ELSE 0

get_bkgd_tile_map_index(p) ==
    IF get_bit(read_io(p, LCDC), BG_TILE_MAP_BIT) THEN 1 ELSE 0

get_wndw_tile_map_index(p) ==
    IF get_bit(read_io(p, LCDC), WNDW_TILE_MAP_BIT) THEN 1 ELSE 0

\* 256 + (tile_num as i8) with the signed table, tile_num with the unsigned one
tile_index_of(p, tile_num) ==
    IF get_bkgd_wndw_tile_set_index(p) = 0
    THEN (IF tile_num >= 128 THEN tile_num ELSE 256 + tile_num)
    ELSE tile_num

get_cgb_bg_color(p, num, pixel) ==
    gbc2rgba(Rd(p.cgb_bg_pal_data, num * CGB_PAL_SIZE + 2 * pixel),
             Rd(p.cgb_bg_pal_data, num * CGB_PAL_SIZE + 2 * pixel + 1))

get_cgb_spr_color(p, pal, pixel) ==
    gbc2rgba(Rd(p.cgb_spr_pal_data, pal * CGB_PAL_SIZE + 2 * pixel),
             Rd(p.cgb_spr_pal_data, pal * CGB_PAL_SIZE + 2 * pixel + 1))

BlankPixel == [color |-> << 255, 255, 255, 255 >>, src |-> <<"none", 0>>, index |-> 0]

\* the pixel render_background_line writes at column x
bkgd_pixel(p, line, mode, x) ==
    LET scx == read_io(p, SCX)
        scy == read_io(p, SCY)
        y == (scy + line) % MAP_PIXELS
        map_x == ((scx + x) % MAP_PIXELS) \div TILESIZE
        map_y == y \div TILESIZE
        idx == (map_y * MAP_SIZE + map_x)
                   + get_bkgd_tile_map_index(p) * TILE_MAP_TBL_SIZE
        meta == get_metadata(p, idx)
        tile_index == tile_index_of(p, get_tile_num(p, idx))
        tile == IF mode = CGB THEN tile_index + get_vram_bank(meta) * TILE_NUM
                ELSE tile_index
        col0 == (scx + x) % TILESIZE
        col == IF is_x_flip(meta) THEN TILESIZE - col0 - 1 ELSE col0
        row0 == y % TILESIZE
        row == IF is_y_flip(meta) THEN TILESIZE - row0 - 1 ELSE row0
        pixel == tile_pixel(p, tile, row, col)
        color == IF mode = CGB THEN get_cgb_bg_color(p, get_pal_num(meta), pixel)
                 ELSE sys_pal(unpack_u8(read_io(p, BGP), pixel))
    IN [color |-> color, src |-> <<"bkgd", 0>>, index |-> pixel]

\* the pixel render_wndw_line writes at column x >= start_x for internal line
wndw_pixel(p, line, mode, x) ==
    LET wndw_coords == get_wndw_coords(p)
        y == line - wndw_coords.y
        row == y % TILESIZE
        map_y == y \div TILESIZE
        start_x == wndw_coords.x
        map_x == ((x - start_x) % MAP_PIXELS) \div TILESIZE
        idx == (map_y * MAP_SIZE + map_x)
                   + get_wndw_tile_map_index(p) * TILE_MAP_TBL_SIZE
        tile == tile_index_of(p, get_tile_num(p, idx)) + p.vram_bank * TILE_NUM
        col == (x - start_x) % TILESIZE
        pixel == tile_pixel(p, tile, row, col)
        color == IF mode = CGB THEN get_cgb_bg_color(p, 0, pixel)
                 ELSE sys_pal(unpack_u8(read_io(p, BGP), pixel))
    IN [color |-> color, src |-> <<"wndw", 0>>, index |-> pixel]

spr_tile(p, i) == Rd(p.oam, i * OAM_BYTE_SIZE + 2)

spr_attr(p, i) == Rd(p.oam, i * OAM_BYTE_SIZE + 3)

is_above_bkgd(p, i) == ~get_bit(spr_attr(p, i), 7)

spr_is_y_flip(p, i) == get_bit(spr_attr(p, i), 6)

spr_is_x_flip(p, i) == get_bit(spr_attr(p, i), 5)

\* Sprite::get_pal: the 3-bit palette number on CGB, the OBP selector on DMG
spr_get_pal(p, i, mode) ==
    IF mode = CGB THEN spr_attr(p, i) % 8
    ELSE (IF get_bit(spr_attr(p, i), 4) THEN 1 ELSE 0)

spr_get_vram_bank(p, i, mode) ==
    IF mode = CGB /\ get_bit(spr_attr(p, i), 3) THEN 1 ELSE 0

get_dmg_spr_indices(p, pal, pixel) ==
    CASE pal = 0 -> unpack_u8(read_io(p, OBP0), pixel)
      [] pal = 1 -> unpack_u8(read_io(p, OBP1), pixel)
      [] OTHER -> 0

\* the map cell render_sprite_line consults for the pixel at column pixel_x
spr_bkgd_cell(p, line, pixel_x) ==
    LET map_x == (read_io(p, SCX) + pixel_x) % MAP_SIZE
        map_y == (read_io(p, SCY) + line) % MAP_SIZE
    IN (map_y * MAP_SIZE + map_x) + get_bkgd_tile_map_index(p) * TILE_MAP_TBL_SIZE

\* above_bg as the column loop of one sprite leaves it after column col: the
\* variable is declared once per sprite and updated at every column on screen
RECURSIVE cgb_above_bg(_, _, _, _)
cgb_above_bg(p, i, line, col) ==
    IF col < 0 THEN is_above_bkgd(p, i)
    ELSE LET before == cgb_above_bg(p, i, line, col - 1)
             x_offset == IF spr_is_x_flip(p, i) THEN TILESIZE - col - 1 ELSE col
             pixel_x == get_coords(p, i).x + x_offset
         IN IF pixel_x < 0 \/ pixel_x >= SCREEN_WIDTH THEN before
            ELSE \/ (before /\ ~is_bg_priority(get_metadata(p, spr_bkgd_cell(p, line, pixel_x))))
                 \/ ~get_bit(read_io(p, LCDC), BG_DISP_BIT)

\* the colour index sprite i has at screen column x of the line, 0 where it
\* does not cover the column
spr_pixel_at(p, i, line, mode, x) ==
    LET c == get_coords(p, i)
        x_offset == x - c.x
        is_8x16 == spr_are_8x16(p)
        col == IF spr_is_x_flip(p, i) THEN TILESIZE - x_offset - 1 ELSE x_offset
        row0 == line - c.y
        row == IF spr_is_y_flip(p, i)
               THEN (IF is_8x16 THEN (2 * TILESIZE) - row0 - 1 ELSE TILESIZE - row0 - 1)
               ELSE row0
        spr_num == IF is_8x16
                   THEN (IF row < TILESIZE THEN clear_bit(spr_tile(p, i), 0)
                         ELSE set_bit(spr_tile(p, i), 0))
                   ELSE spr_tile(p, i)
        spr_bank == spr_num + spr_get_vram_bank(p, i, mode) * TILE_NUM
    IN IF x_offset < 0 \/ x_offset >= TILESIZE THEN 0
       ELSE tile_pixel(p, spr_bank, row % TILESIZE, col)

\* column x of the row after the column loop of sprite i, cur before it
spr_draw(p, i, line, mode, x, cur) ==
    LET c == get_coords(p, i)
        x_offset == x - c.x
        col == IF spr_is_x_flip(p, i) THEN TILESIZE - x_offset - 1 ELSE x_offset
        pal == spr_get_pal(p, i, mode)
        pixel == spr_pixel_at(p, i, line, mode, x)
        meta == get_metadata(p, spr_bkgd_cell(p, line, x))
        bkgd_transparent ==
            IF mode = CGB THEN cur.color = get_cgb_bg_color(p, get_pal_num(meta), 0)
            ELSE cur.color = sys_pal(0)
        above_bg == IF mode = CGB THEN cgb_above_bg(p, i, line, col)
                    ELSE is_above_bkgd(p, i)
        color == IF mode = CGB THEN get_cgb_spr_color(p, pal, pixel)
                 ELSE sys_pal(get_dmg_spr_indices(p, pal, pixel))
    IN IF x_offset < 0 \/ x_offset >= TILESIZE THEN cur
       ELSE IF pixel # 0 /\ (above_bg \/ bkgd_transparent)
       THEN [color |-> color, src |-> <<"spr", i>>, index |-> pixel]
       ELSE cur

\* column x of the row after the sprites drawn[k..] have been drawn over cur
RECURSIVE draw_sprites(_, _, _, _, _, _, _)
draw_sprites(p, drawn, k, line, mode, x, cur) ==
    IF k > Len(drawn) THEN cur
    ELSE draw_sprites(p, drawn, k + 1, line, mode, x,
                      spr_draw(p, drawn[k], line, mode, x, cur))

(***************************************************************************)
(* render_scanline.  A row of the frame buffer is kept as the layers that  *)
(* were composited into it: whether the background was drawn, the internal *)
(* line the window drew, and the sprites drawn, first drawn first,         *)
(* together with the pixels of its columns 0..MaxCol.                      *)
(***************************************************************************)
\* the sprites render_sprite_line draws, in the order it draws them
RECURSIVE sprite_loop(_, _, _, _, _, _)
sprite_loop(p, sorted, k, sprites_drawn, line, mode) ==
    IF k > Len(sorted) THEN << >>
    ELSE LET spr == sorted[k]
         IN IF \/ ~contains_scanline(p, spr, line, spr_are_8x16(p))
               \/ ~is_onscreen(p, spr)
            THEN sprite_loop(p, sorted, k + 1, sprites_drawn, line, mode)
            ELSE IF sprites_drawn + 1 > SPR_PER_LINE /\ mode # CGB
            THEN << >>
            ELSE << spr >> \o sprite_loop(p, sorted, k + 1, sprites_drawn + 1,
                                          line, mode)

render_sprite_line(p, line, mode) ==
    sprite_loop(p, sort_sprites(p), 1, 0, line, mode)

\* the window drawn at the raw scanline whatever the continuation marker holds
render_wndw_line_raw(p, scanline) ==
    LET wndw_coords == get_wndw_coords(p)
    IN IF wndw_coords.y > scanline \/ wndw_coords.x > SCREEN_WIDTH
       THEN [p |-> p, drew |-> None]
       ELSE [p |-> [p EXCEPT !.last_wndw_line = Some(scanline)],
             drew |-> Some(scanline)]

\* the state after render_wndw_line and the internal line it drew, if any
render_wndw_line(p, scanline) ==
    LET wndw_coords == get_wndw_coords(p)
        overflow == p.last_wndw_line # None /\ p.last_wndw_line[1] + 1 > 255
        line == IF p.last_wndw_line = None THEN scanline
                ELSE (p.last_wndw_line[1] + 1) % 256
    IN IF overflow /\ p.overflow_checks
       THEN [p |-> [p EXCEPT !.panicked = TRUE], drew |-> None]
       ELSE IF wndw_coords.y > line \/ wndw_coords.x > SCREEN_WIDTH
       THEN [p |-> p, drew |-> None]
       ELSE [p |-> [p EXCEPT !.last_wndw_line = Some(line)], drew |-> Some(line)]

render_scanline(p, mode) ==
    LET line == read_io(p, LY)
        bkgd == is_bkgd_dspl(p, mode)
        wn == IF is_wndw_dspl(p) THEN render_wndw_line(p, line)
              ELSE [p |-> p, drew |-> None]
        sprites == IF is_sprt_dspl(wn.p) THEN render_sprite_line(wn.p, line, mode)
                   ELSE << >>
        start_x == get_wndw_coords(p).x
        pixels == [x \in 0..MaxCol |->
                      LET b == IF bkgd THEN bkgd_pixel(p, line, mode, x)
                               ELSE BlankPixel
                          v == IF wn.drew # None /\ x >= start_x
                               THEN wndw_pixel(p, wn.drew[1], mode, x)
                               ELSE b
                      IN draw_sprites(wn.p, sprites, 1, line, mode, x, v)]
        row == [bkgd |-> bkgd, wndw |-> wn.drew, sprites |-> sprites,
                pixels |-> pixels]
    IN IF wn.p.panicked THEN wn.p
       ELSE IF line >= SCREEN_HEIGHT
       THEN [wn.p EXCEPT !.panicked = TRUE]
       ELSE [wn.p EXCEPT !.screen_buffer =
                [j \in DOMAIN @ \cup {line} |-> IF j = line THEN row ELSE @[j]]]

\* the colours of a stored row
row_bytes(row) == [x \in DOMAIN row.pixels |-> row.pixels[x].color]

BlankScreen ==
    [line \in 0..(SCREEN_HEIGHT - 1) |-> [x \in 0..MaxCol |-> BlankPixel.color]]

\* the frame buffer handed out whether or not the display is enabled
render_screen_stale(p) ==
    [line \in DOMAIN p.screen_buffer |-> row_bytes(p.screen_buffer[line])]

\* the frame returned: rows never rendered hold zero bytes and are left out
render_screen(p) ==
    IF is_lcd_dspl(p)
    THEN [line \in DOMAIN p.screen_buffer |-> row_bytes(p.screen_buffer[line])]
    ELSE BlankScreen

(***************************************************************************)
(* The operations as steps of the program                                  *)
(***************************************************************************)
Snapshot ==
    [stat |-> Rd(io, STAT - IO_START), ly |-> Rd(io, LY - IO_START),
     line |-> lcd_mode.line, mode |-> lcd_mode.mode]

NoWrite == [addr |-> 0, val |-> 0, mode |-> DMG]

NoRun == [irqs |-> 0, clean |-> TRUE, entered |-> FALSE]

NoRead ==
    [addr |-> 0, bank |-> None, mode |-> DMG, val |-> 0, fault |-> FALSE,
     after_write |-> FALSE]

Min(a, b) == IF a < b THEN a ELSE b

WriteVram(addr, val, mode) ==
    /\ ~panicked
    /\ \E p \in {write_vram(Self, addr, val, mode)} : Commit(p)
    /\ op' = "write"
    /\ w' = [addr |-> addr, val |-> val, mode |-> mode]
    /\ pre' = Snapshot
    /\ interrupt' = FALSE
    /\ ly_irq' = FALSE
    /\ wr_pending' = had_update
    /\ UNCHANGED << run, had_update, overflow_checks >>

Update(cycles) ==
    /\ ~panicked
    /\ \E r \in {update(Self, cycles)} :
       LET changed == r.p.lcd_mode.line # lcd_mode.line
           n == IF r.interrupt THEN 1 ELSE 0
       IN /\ Commit(r.p)
          /\ interrupt' = r.interrupt
          /\ ly_irq' = r.ly_irq
          /\ run' = IF changed
                    THEN [irqs |-> n, clean |-> ~wr_pending, entered |-> TRUE]
                    ELSE [run EXCEPT !.irqs = Min(2, @ + n),
                                     !.clean = @ /\ ~wr_pending]
    /\ op' = "update"
    /\ w' = NoWrite
    /\ pre' = Snapshot
    /\ wr_pending' = FALSE
    /\ had_update' = TRUE
    /\ UNCHANGED << overflow_checks >>

RenderScanline(mode) ==
    /\ ~panicked
    /\ \E p \in {render_scanline(Self, mode)} : Commit(p)
    /\ op' = "render"
    /\ w' = [addr |-> 0, val |-> 0, mode |-> mode]
    /\ pre' = Snapshot
    /\ interrupt' = FALSE
    /\ ly_irq' = FALSE
    /\ UNCHANGED << run, wr_pending, had_update, overflow_checks >>

\* read_vram takes &self: the only thing it can do to the program is end it
ReadVram(addr, bank_override, mode) ==
    /\ ~panicked
    /\ LET r == read_vram(Self, addr, bank_override, mode)
       IN /\ rd' = [addr |-> addr, bank |-> bank_override, mode |-> mode,
                    val |-> r.val, fault |-> r.fault,
                    after_write |-> (op = "write")]
          /\ panicked' = r.fault
    /\ op' = "read"
    /\ prev' = Self
    /\ pre' = Snapshot
    /\ interrupt' = FALSE
    /\ ly_irq' = FALSE
    /\ UNCHANGED << vram_bank, io, screen_buffer, tiles, tile_maps, oam,
                    last_wndw_line, cgb_bg_pal_data, cgb_spr_pal_data, lcd_mode,
                    overflow_checks, w, run, wr_pending, had_update, all_dmg,
                    written >>

\* render_screen takes &self
RenderScreen ==
    /\ ~panicked
    /\ frame' = render_screen(Self)
    /\ op' = "screen"
    /\ prev' = Self
    /\ pre' = Snapshot
    /\ interrupt' = FALSE
    /\ ly_irq' = FALSE
    /\ UNCHANGED << vram_bank, io, screen_buffer, tiles, tile_maps, oam,
                    last_wndw_line, cgb_bg_pal_data, cgb_spr_pal_data, lcd_mode,
                    panicked, overflow_checks, w, run, wr_pending, had_update,
                    rd, all_dmg, written >>

(***************************************************************************)
(* Construction (PPU::new) and the timing specification: a driver that     *)
(* advances the clock and writes the STAT, LYC and LY registers            *)
(***************************************************************************)
Constructed(checks) ==
    /\ vram_bank = 0
    /\ io = Empty
    /\ screen_buffer = Empty
    /\ tiles = Empty
    /\ tile_maps = Empty
    /\ oam = Empty
    /\ last_wndw_line = None
    /\ cgb_bg_pal_data = Empty
    /\ cgb_spr_pal_data = Empty
    /\ lcd_mode = LcdNew
    /\ panicked = FALSE
    /\ overflow_checks = checks
    /\ op = "new"
    /\ interrupt = FALSE
    /\ ly_irq = FALSE
    /\ pre = [stat |-> 0, ly |-> 0, line |-> 0, mode |-> "OAMReadMode"]
    /\ w = NoWrite
    /\ run = NoRun
    /\ wr_pending = FALSE
    /\ had_update = FALSE
    /\ n_writes = 0
    /\ oam_ptr = 0
    /\ prev = Self
    /\ rd = NoRead
    /\ all_dmg = TRUE
    /\ frame = Empty
    /\ frame_no = 0
    /\ written = Empty

Init == Constructed(TRUE)

InitAnyBuild == \E checks \in BOOLEAN : Constructed(checks)

CycleChoices == {0, 152}

RegWrites ==
    {<<STAT, v>> : v \in {0, 7, 24, 32, 64}}
        \cup {<<LYC, v>> : v \in {1}}
        \cup {<<LY, 5>>}

UpdateStep ==
    /\ \E cycles \in CycleChoices : Update(cycles)
    /\ UNCHANGED << n_writes, oam_ptr, ghost >>

WriteReg ==
    /\ n_writes < MaxWrites
    /\ \E aw \in RegWrites, mode \in {DMG, CGB} : WriteVram(aw[1], aw[2], mode)
    /\ n_writes' = n_writes + 1
    /\ UNCHANGED << oam_ptr, ghost >>

Next == UpdateStep \/ WriteReg

Spec == Init /\ [][Next]_vars

(***************************************************************************)
(* Properties of update, set_ly and the STAT register                      *)
(***************************************************************************)
StatReg == Rd(io, STAT - IO_START)

LyReg == Rd(io, LY - IO_START)

LycReg == Rd(io, LYC - IO_START)

Line == get_scanline(lcd_mode)

Mode == get_lcd_mode(Self)

\* C1: after every update call the low two bits of STAT are the numeric id
\* of the mode get_lcd_mode returns, whatever was written before the call.
C1_StatMirrorsMode ==
    op = "update" => StatReg % 4 = get_idx(Mode)

C1_Witness ==
    /\ op = "update"
    /\ n_writes > 0
    /\ Mode = "HBLANK"
    /\ pre.stat % 4 = 3
    /\ StatReg % 4 = 0

EnableBitOf(mode) ==
    CASE mode = "HBLANK" -> HBLANK_INTERRUPT_BIT
      [] mode = "VBLANK" -> VBLANK_INTERRUPT_BIT
      [] mode = "OAMReadMode" -> OAM_INTERRUPT_BIT

\* C2: an update call that changes the mode returns interrupt = true
\* whenever the enable bit of the mode it entered is set in STAT (bit 3 for
\* HBlank, bit 4 for VBlank, bit 5 for ObjectSearch).
C2_ModeEntryInterrupts ==
    (/\ op = "update"
     /\ pre.mode # Mode
     /\ Mode \in {"HBLANK", "VBLANK", "OAMReadMode"}
     /\ get_bit(StatReg, EnableBitOf(Mode)))
        => interrupt

\* C3: update returns interrupt = true only if in that call the scanline
\* changed to a value equal to LYC with STAT bit 6 set, or the mode changed
\* to HBlank, VBlank or ObjectSearch with that mode's enable bit set;
\* entering PixelTransfer alone never interrupts.
C3_InterruptOnlyOnEvent ==
    (op = "update" /\ interrupt) =>
        \/ /\ pre.line # Line
           /\ Line = LycReg
           /\ get_bit(StatReg, LYC_LY_INTERRUPT_BIT)
        \/ /\ pre.mode # Mode
           /\ Mode \in {"HBLANK", "VBLANK", "OAMReadMode"}
           /\ get_bit(StatReg, EnableBitOf(Mode))

CoincidenceOnly ==
    /\ get_bit(StatReg, LYC_LY_INTERRUPT_BIT)
    /\ ~get_bit(StatReg, HBLANK_INTERRUPT_BIT)
    /\ ~get_bit(StatReg, VBLANK_INTERRUPT_BIT)
    /\ ~get_bit(StatReg, OAM_INTERRUPT_BIT)

\* C4 as stated: with LYC = k, only the coincidence enable bit set and no
\* register writes between update calls, exactly one of the consecutive
\* update calls made while the scanline equals k returns interrupt = true,
\* and it is the one on which the scanline changes to k (the first of them).
C4_ExactlyOnePerRun ==
    (/\ op = "update"
     /\ run.clean
     /\ CoincidenceOnly
     /\ LycReg = Line)
        => run.irqs = 1

\* C4 amended: the same for every run of calls that begins with a call on
\* which the scanline changes to k; the run at scanline 0 that starts at
\* construction has no such call.
C4_ExactlyOnePerEnteredRun ==
    (/\ op = "update"
     /\ run.clean
     /\ run.entered
     /\ CoincidenceOnly
     /\ LycReg = Line)
        => /\ run.irqs = 1
           /\ interrupt <=> (pre.line # Line)

C4_Witness ==
    /\ op = "update"
    /\ run.clean
    /\ run.entered
    /\ CoincidenceOnly
    /\ LycReg = Line
    /\ pre.line = Line
    /\ ~interrupt
    /\ run.irqs = 1

\* C5: on an update call that leaves the scanline unchanged the coincidence
\* flag (STAT bit 2) keeps its value and set_ly contributes no interrupt,
\* whatever was written to LY, LYC or STAT since the previous call.
C5_NoReevaluationOnSameLine ==
    (op = "update" /\ pre.line = Line) =>
        /\ get_bit(StatReg, LYC_LY_FLAG_BIT) = get_bit(pre.stat, LYC_LY_FLAG_BIT)
        /\ ~ly_irq

\* C6: the scanline after an update call, which that call leaves in LY, is
\* the scanline before it or its successor, 153 being followed by 0.
C6_ScanlineStepsByOne ==
    op = "update" =>
        /\ LyReg = Line
        /\ Line \in {pre.line, (pre.line + 1) % NUM_LINES}

C6_Witness ==
    /\ op = "update"
    /\ pre.line = NUM_LINES - 1
    /\ Line = 0
    /\ LyReg = 0

\* C7: the scanline is in 0..153, the mode is VerticalBlank exactly on
\* scanlines 144..153, and on scanlines 0..143 it is ObjectSearch,
\* PixelTransfer or HorizontalBlank.
C7_VBlankLines ==
    /\ Line \in 0..153
    /\ (Mode = "VBLANK") <=> (Line \in 144..153)
    /\ Line \in 0..143 => Mode \in {"OAMReadMode", "VRAMReadMode", "HBLANK"}

C7_Witness ==
    /\ op = "update"
    /\ Line = 144
    /\ pre.line = 143
    /\ pre.mode = "HBLANK"
    /\ Mode = "VBLANK"

\* C8: a write to STAT leaves bits 0-2 of STAT as they were, and no register
\* write changes the mode bits that the last update call left there.
C8_StatLowBitsReadOnly ==
    /\ (op = "write" /\ w.addr = STAT) => StatReg % 8 = pre.stat % 8
    /\ op = "write" => StatReg % 4 = pre.stat % 4
    /\ had_update => StatReg % 4 = get_idx(Mode)

C8_Witness ==
    /\ op = "write"
    /\ w.addr = STAT
    /\ had_update
    /\ pre.stat % 8 \in 1..6
    /\ w.val % 8 = 7
    /\ StatReg % 8 = pre.stat % 8

\* C9: after write(STAT, v) bits 3-6 of STAT equal bits 3-6 of v, so a later
\* write can clear an enable bit an earlier write set.
C9_EnableBitsWritable ==
    (op = "write" /\ w.addr = STAT) =>
        (StatReg \div 8) % 16 = (w.val \div 8) % 16

(***************************************************************************)
(* The sprite specification: a driver that enables the sprite layer, fills *)
(* the object table entry by entry and then renders scanline 0             *)
(***************************************************************************)
SpriteY == {16}

SpriteX == {16, 20}

SetLcdc ==
    /\ oam_ptr = 0
    /\ screen_buffer = Empty
    /\ Rd(io, LCDC - IO_START) = 0
    /\ \E mode \in {DMG, CGB} : WriteVram(LCDC, 2, mode)
    /\ UNCHANGED << n_writes, oam_ptr, ghost >>

FillOam ==
    /\ oam_ptr < 2 * MaxSpr
    /\ screen_buffer = Empty
    /\ Rd(io, LCDC - IO_START) # 0
    /\ LET entry == oam_ptr \div 2
           byte == oam_ptr % 2
           addr == OAM_START + entry * OAM_BYTE_SIZE + byte
       IN \E val \in (IF byte = 0 THEN SpriteY ELSE SpriteX), mode \in {DMG, CGB} :
              WriteVram(addr, val, mode)
    /\ oam_ptr' = oam_ptr + 1
    /\ UNCHANGED << n_writes, ghost >>

RenderStep ==
    /\ \E mode \in {DMG, CGB} : RenderScanline(mode)
    /\ UNCHANGED << n_writes, oam_ptr, ghost >>

NextSprite == SetLcdc \/ FillOam \/ RenderStep

SpecSprite == Init /\ [][NextSprite]_vars

(***************************************************************************)
(* Properties of the sprite layer                                          *)
(***************************************************************************)
Qualifying ==
    {i \in 0..(OAM_SPR_NUM - 1) :
        /\ contains_scanline(Self, i, LyReg, spr_are_8x16(Self))
        /\ is_onscreen(Self, i)}

Outranks(i, j) ==
    \/ spr_x(Self, i) < spr_x(Self, j)
    \/ spr_x(Self, i) = spr_x(Self, j) /\ i < j

HighestPriority(n) ==
    {i \in Qualifying : Cardinality({j \in Qualifying : Outranks(j, i)}) < n}

DrawnSprites ==
    {screen_buffer[LyReg].sprites[k] : k \in 1..Len(screen_buffer[LyReg].sprites)}

\* C10: with more than 10 qualifying sprites on the scanline the monochrome
\* variant draws exactly the 10 of highest priority (lowest x, then lowest
\* table index) and none of the others; the color variant draws them all.
C10_SpriteCap ==
    (op = "render" /\ is_sprt_dspl(Self) /\ Cardinality(Qualifying) > SPR_PER_LINE) =>
        /\ w.mode = DMG => DrawnSprites = HighestPriority(SPR_PER_LINE)
        /\ w.mode = CGB => DrawnSprites = Qualifying

(***************************************************************************)
(* The memory specification: a driver that writes and reads one address of *)
(* every region, and two addresses no region owns, under either variant    *)
(***************************************************************************)
UnusedAddrs == {TILE_MAP_END + 1, IO_END + 1}

MemWrites ==
    {<<OAM_START + 5, 1>>, <<TILE_SET + 17, 1>>, <<TILE_MAP + 33, 1>>,
     <<SCY, 1>>, <<VBK, 1>>, <<BGPD, 1>>, <<OBPD, 1>>}
        \cup {<<a, 1>> : a \in UnusedAddrs}

BankChoices == {None, Some(0), Some(1)}

MemWrite ==
    /\ n_writes < MaxMemWrites
    /\ \E aw \in MemWrites, mode \in {DMG, CGB} :
           /\ WriteVram(aw[1], aw[2], mode)
           /\ all_dmg' = (all_dmg /\ mode = DMG)
    /\ n_writes' = n_writes + 1
    /\ prev' = Self
    /\ rd' = NoRead
    /\ UNCHANGED << oam_ptr, frame, frame_no, written >>

MemRead ==
    /\ \E addr \in {w.addr, TILE_MAP + 33, IO_END + 1},
          bank \in BankChoices, mode \in {DMG, CGB} :
           ReadVram(addr, bank, mode)
    /\ UNCHANGED << n_writes, oam_ptr, frame, frame_no, written >>

NextMem == MemWrite \/ MemRead

SpecMem == Init /\ [][NextMem]_vars

(***************************************************************************)
(* Properties of write_vram and read_vram                                  *)
(***************************************************************************)
InOam(a) == a >= OAM_START /\ a <= OAM_END

InTileSet(a) == a >= TILE_SET /\ a <= TILE_SET_END

InTileMap(a) == a >= TILE_MAP /\ a <= TILE_MAP_END

InIo(a) == a >= IO_START /\ a <= IO_END

Unused(a) == ~(InOam(a) \/ InTileSet(a) \/ InTileMap(a) \/ InIo(a))

EffectiveBank == IF rd.bank # None THEN rd.bank[1] ELSE vram_bank

ReadsBackWrite ==
    /\ op = "read"
    /\ rd.after_write
    /\ rd.addr = w.addr
    /\ rd.mode = w.mode
    /\ rd.bank = None

C17_UnusedAddresses ==
    /\ (op = "write" /\ Unused(w.addr)) => Self = prev
    /\ (op = "read" /\ Unused(rd.addr)) => (~rd.fault /\ rd.val = 0 /\ Self = prev)

C17_Witness ==
    /\ op = "read"
    /\ rd.after_write
    /\ Unused(w.addr)
    /\ rd.addr = IO_END + 1
    /\ rd.bank = Some(1)
    /\ vram_bank = 1
    /\ rd.val = 0

MetadataCells == {k \in DOMAIN tile_maps : k[1] = "metadata"}

DmgStoresPlainBytes ==
    (/\ ReadsBackWrite
     /\ w.mode = DMG
     /\ w.addr \in {VBK, BGPD, OBPD})
        => (rd.val = w.val /\ read_io(Self, w.addr) = w.val)

\* C19: as long as every write is issued with the DMG variant the selected
\* bank is 0, no map metadata byte and no colour palette byte is modified,
\* the bank assertion never fires, and writes to VBK, BGPD and OBPD are
\* plain I/O bytes that read back unchanged.
C19_DmgOnly ==
    all_dmg =>
        /\ vram_bank = 0
        /\ MetadataCells = {}
        /\ cgb_bg_pal_data = Empty
        /\ cgb_spr_pal_data = Empty
        /\ ~panicked
        /\ DmgStoresPlainBytes

\* C19 as it holds: the same, except that the bank assertion can fire on a
\* DMG read of the tile map that overrides the bank with a non-zero one,
\* and on nothing else.
C19_DmgOnlyOverrideFaults ==
    all_dmg =>
        /\ vram_bank = 0
        /\ MetadataCells = {}
        /\ cgb_bg_pal_data = Empty
        /\ cgb_spr_pal_data = Empty
        /\ panicked =>
               /\ op = "read"
               /\ rd.mode = DMG
               /\ InTileMap(rd.addr)
               /\ rd.bank \notin {None, Some(0)}
        /\ DmgStoresPlainBytes

C19_Witness ==
    /\ all_dmg
    /\ n_writes = MaxMemWrites
    /\ ReadsBackWrite
    /\ w.addr = VBK
    /\ w.val = 1
    /\ rd.val = 1
    /\ vram_bank = 0

\* C20: a DMG write to the tile map while bank 1 is selected, and a DMG read
\* of the tile map whose effective bank is non-zero, end in the fatal
\* assertion; the write stores nothing and the read returns nothing.
C20_DmgBankFault ==
    /\ (op = "write" /\ w.mode = DMG /\ InTileMap(w.addr) /\ prev.vram_bank # 0)
           => (panicked /\ tile_maps = prev.tile_maps)
    /\ (op = "read" /\ rd.mode = DMG /\ InTileMap(rd.addr) /\ EffectiveBank # 0)
           => (panicked /\ rd.fault)

C20_Witness ==
    /\ op = "write"
    /\ w.mode = DMG
    /\ InTileMap(w.addr)
    /\ prev.vram_bank = 1
    /\ panicked

(***************************************************************************)
(* The palette specification: a driver that writes the colour palette      *)
(* index and data registers and reads the data registers back, in a build  *)
(* with or without overflow checks                                         *)
(***************************************************************************)
PalIndices == {63, 64, 191, 255}

PalWrites ==
    {<<reg, i>> : reg \in {BGPI, OBPI}, i \in PalIndices}
        \cup {<<reg, v>> : reg \in {BGPD, OBPD}, v \in {1, 2}}

PalWrite ==
    /\ n_writes < MaxPalWrites
    /\ \E aw \in PalWrites, mode \in {DMG, CGB} :
           /\ WriteVram(aw[1], aw[2], mode)
           /\ all_dmg' = (all_dmg /\ mode = DMG)
    /\ n_writes' = n_writes + 1
    /\ prev' = Self
    /\ rd' = NoRead
    /\ UNCHANGED << oam_ptr, frame, frame_no, written >>

PalRead ==
    /\ \E addr \in {BGPD, OBPD}, mode \in {DMG, CGB} : ReadVram(addr, None, mode)
    /\ UNCHANGED << n_writes, oam_ptr, frame, frame_no, written >>

NextPal == PalWrite \/ PalRead

SpecPal == InitAnyBuild /\ [][NextPal]_vars

(***************************************************************************)
(* Properties of the colour palette registers                              *)
(***************************************************************************)
IndexRegOf(data_reg) == IF data_reg = BGPD THEN BGPI ELSE OBPI

PalDataOf(p, data_reg) ==
    IF data_reg = BGPD THEN p.cgb_bg_pal_data ELSE p.cgb_spr_pal_data

\* C15: on color a write of v to BGPD or OBPD stores v at palette byte
\* (index & 0x3F); with bit 7 of the index set the low six bits then read
\* (old + 1) mod 64 with bit 7 still set, for every index value, and with
\* bit 7 clear the index register is left alone.
C15_PaletteWrite ==
    (op = "write" /\ w.mode = CGB /\ w.addr \in {BGPD, OBPD}) =>
        LET old == read_io(prev, IndexRegOf(w.addr))
            new == read_io(Self, IndexRegOf(w.addr))
        IN /\ ~panicked
           /\ Rd(PalDataOf(Self, w.addr), old % 64) = w.val
           /\ get_bit(old, AUTO_INC_BIT) =>
                  (new % 64 = ((old % 64) + 1) % 64 /\ get_bit(new, AUTO_INC_BIT))
           /\ ~get_bit(old, AUTO_INC_BIT) => new = old

\* C16: on color a read of BGPD or OBPD returns the palette byte at
\* (index & 0x3F) for every value of the index register, without a fault
\* and without changing the index register.
C16_PaletteRead ==
    (op = "read" /\ rd.mode = CGB /\ rd.addr \in {BGPD, OBPD}) =>
        LET idx == read_io(prev, IndexRegOf(rd.addr))
        IN /\ ~rd.fault
           /\ rd.val = Rd(PalDataOf(prev, rd.addr), idx % 64)
           /\ read_io(Self, IndexRegOf(rd.addr)) = idx

(***************************************************************************)
(* The overlap specification: a driver of one hardware variant that gives  *)
(* tile 1 an opaque top row, places object-table entries 0 and 1 on        *)
(* scanline 0 at the same or at overlapping columns, gives sprite palette  *)
(* 0 a colour, optionally marks the map cell consulted for column 12 as    *)
(* having priority, and renders scanline 0                                 *)
(***************************************************************************)
OverlapScript ==
    << <<LCDC, {2, 3}>>,
       <<TILE_SET + TILE_BYTES, {255}>>,
       <<OAM_START, {16}>>, <<OAM_START + 1, {16, 20}>>,
       <<OAM_START + 2, {1}>>, <<OAM_START + 3, {0}>>,
       <<OAM_START + 4, {16}>>, <<OAM_START + 5, {16, 20}>>,
       <<OAM_START + 6, {1}>>, <<OAM_START + 7, {0}>>,
       <<OBPI, {2}>>, <<OBPD, {255}>>,
       <<VBK, {1}>>, <<TILE_MAP + 12, {0, 128}>> >>

OverlapWrite ==
    /\ oam_ptr < Len(OverlapScript)
    /\ LET step == OverlapScript[oam_ptr + 1]
       IN \E val \in step[2], mode \in {DMG, CGB} :
              /\ oam_ptr = 0 \/ mode = w.mode
              /\ WriteVram(step[1], val, mode)
    /\ oam_ptr' = oam_ptr + 1
    /\ UNCHANGED << n_writes, ghost >>

OverlapRender ==
    /\ oam_ptr = Len(OverlapScript)
    /\ screen_buffer = Empty
    /\ RenderScanline(w.mode)
    /\ UNCHANGED << n_writes, oam_ptr, ghost >>

NextOverlap == OverlapWrite \/ OverlapRender

SpecOverlap == Init /\ [][NextOverlap]_vars

(***************************************************************************)
(* Properties of overlapping sprites                                       *)
(***************************************************************************)
OpaqueAt(i, x) == spr_pixel_at(Self, i, LyReg, w.mode, x) # 0

\* C11: where two opaque above-background sprites that are both drawn on
\* the scanline overlap, the pixel left in the row is the one of the sprite
\* with the smaller x, and with equal x of the lower object-table index.
C11_OverlapPriority ==
    op = "render" =>
        \A i \in DrawnSprites, j \in DrawnSprites, x \in 0..MaxCol :
            (/\ Outranks(i, j)
             /\ is_above_bkgd(Self, i) /\ is_above_bkgd(Self, j)
             /\ OpaqueAt(i, x) /\ OpaqueAt(j, x))
                => screen_buffer[LyReg].pixels[x].src = <<"spr", i>>

(***************************************************************************)
(* The window specification: a CGB driver that steps the clock half a line *)
(* at a time through the first frame and into the second.  Half way along  *)
(* the last visible scanlines of the first frame and scanline 0 of the     *)
(* second it switches between window and display or moves the window down, *)
(* renders the scanline and                                                *)
(* fetches the frame; on the last scanline of a frame it may write 0 to LY *)
(***************************************************************************)
WinRegs == {<<LCDC, 32>>, <<LCDC, 128>>, <<WY, SCREEN_HEIGHT - 1>>}

DriverActs ==
    /\ lcd_mode.cycles # 0
    /\ \/ frame_no = 0 /\ lcd_mode.line >= SCREEN_HEIGHT - MaxWinLines
                       /\ lcd_mode.line < SCREEN_HEIGHT
       \/ frame_no = 1 /\ lcd_mode.line = 0

WinUpdate ==
    /\ frame_no = 0 \/ lcd_mode.cycles = 0
    /\ Update(LINE_CYCLES \div 2)
    /\ frame_no' = IF lcd_mode.line = NUM_LINES - 1 /\ lcd_mode'.line = 0
                   THEN frame_no + 1 ELSE frame_no
    /\ prev' = Self
    /\ frame' = Empty
    /\ UNCHANGED << n_writes, oam_ptr, rd, all_dmg, written >>

WinWrite ==
    /\ n_writes < MaxWinWrites
    /\ \/ /\ DriverActs
          /\ \E aw \in WinRegs : WriteVram(aw[1], aw[2], CGB)
       \/ /\ lcd_mode.line = NUM_LINES - 1
          /\ lcd_mode.cycles # 0
          /\ WriteVram(LY, 0, CGB)
    /\ n_writes' = n_writes + 1
    /\ prev' = Self
    /\ frame' = Empty
    /\ UNCHANGED << oam_ptr, rd, all_dmg, frame_no, written >>

WinRender ==
    /\ DriverActs
    /\ op \notin {"render", "screen"}
    /\ RenderScanline(CGB)
    /\ prev' = Self
    /\ frame' = Empty
    /\ UNCHANGED << n_writes, oam_ptr, rd, all_dmg, frame_no, written >>

WinScreen ==
    /\ op = "render"
    /\ RenderScreen
    /\ UNCHANGED << n_writes, oam_ptr, frame_no, written >>

NextWindow == WinUpdate \/ WinWrite \/ WinRender \/ WinScreen

SpecWindow == Init /\ [][NextWindow]_vars

(***************************************************************************)
(* Properties of the window continuation marker and of render_screen       *)
(***************************************************************************)
WindowShowsAt(p, line) ==
    ~(get_wndw_coords(p).y > line \/ get_wndw_coords(p).x > SCREEN_WIDTH)

\* C12: when the marker holds internal line n, the next render_scanline
\* with the window enabled looks the window up at internal line n + 1,
\* whatever scanline it renders and however many scanlines were rendered
\* with the window disabled since; it draws that line and stores n + 1, or
\* the window does not reach that line and the marker keeps n.
C12_WindowContinuation ==
    (op = "render" /\ ~panicked /\ is_wndw_dspl(prev) /\ prev.last_wndw_line # None) =>
        LET n == prev.last_wndw_line[1]
            row == screen_buffer[LyReg]
        IN IF WindowShowsAt(prev, n + 1)
           THEN /\ row.wndw = Some(n + 1)
                /\ last_wndw_line = Some(n + 1)
                /\ \A x \in 0..MaxCol :
                       x >= get_wndw_coords(prev).x =>
                           row.pixels[x] = wndw_pixel(prev, n + 1, w.mode, x)
           ELSE row.wndw = None /\ last_wndw_line = Some(n)

C12_Witness ==
    /\ op = "render"
    /\ frame_no = 0
    /\ LyReg - 1 \in DOMAIN screen_buffer
    /\ screen_buffer[LyReg - 1].wndw = None
    /\ prev.last_wndw_line = Some(LyReg - 2)
    /\ screen_buffer[LyReg].wndw = Some(LyReg - 1)
    /\ last_wndw_line = Some(LyReg - 1)

\* C13: after an update call that moves the scanline from 153 to 0 the
\* marker is None, whatever was written before the call, and a None marker
\* stays None until a render_scanline on which the window draws.
C13_MarkerEmptyAtFrameStart ==
    /\ (op = "update" /\ pre.line = NUM_LINES - 1 /\ Line = 0)
           => last_wndw_line = None
    /\ (prev.last_wndw_line = None /\ last_wndw_line # None)
           => (op = "render" /\ screen_buffer[LyReg].wndw # None)

\* C18: with LCDC bit 7 clear render_screen returns a frame of 0xFF bytes
\* whatever was rendered before, with the bit set it returns the stored
\* frame buffer, and it leaves the PPU as it was.
C18_RenderScreen ==
    op = "screen" =>
        /\ ~is_lcd_dspl(Self) =>
               \A line \in 0..(SCREEN_HEIGHT - 1), x \in 0..MaxCol :
                   /\ line \in DOMAIN frame
                   /\ frame[line][x] = << 255, 255, 255, 255 >>
        /\ is_lcd_dspl(Self) =>
               /\ DOMAIN frame = DOMAIN screen_buffer
               /\ \A line \in DOMAIN frame :
                      frame[line] = row_bytes(screen_buffer[line])
        /\ Self = prev

C18_Witness ==
    /\ op = "screen"
    /\ ~is_lcd_dspl(Self)
    /\ \E line \in DOMAIN screen_buffer :
           /\ screen_buffer[line].wndw # None
           /\ screen_buffer[line].pixels[0].color # << 255, 255, 255, 255 >>
    /\ frame = BlankScreen

(***************************************************************************)
(* The scanline specification: a driver that steps the clock half a        *)
(* scanline at a time round the frame, may write 255 to LY, and calls      *)
(* render_scanline on the last visible scanlines, on the vertical-blank    *)
(* scanlines and on whatever it wrote to LY                                *)
(***************************************************************************)
LineUpdate ==
    /\ Update(LINE_CYCLES \div 2)
    /\ prev' = Self
    /\ UNCHANGED << n_writes, oam_ptr, rd, all_dmg, frame, frame_no, written >>

LineWrite ==
    /\ n_writes < MaxLineWrites
    /\ WriteVram(LY, 255, DMG)
    /\ n_writes' = n_writes + 1
    /\ prev' = Self
    /\ UNCHANGED << oam_ptr, rd, all_dmg, frame, frame_no, written >>

LineRender ==
    /\ op # "render"
    /\ LyReg >= SCREEN_HEIGHT - MaxLineRows
    /\ RenderScanline(DMG)
    /\ prev' = Self
    /\ UNCHANGED << n_writes, oam_ptr, rd, all_dmg, frame, frame_no, written >>

NextLine == LineUpdate \/ LineWrite \/ LineRender

SpecLine == Init /\ [][NextLine]_vars

(***************************************************************************)
(* Properties of render_scanline                                           *)
(***************************************************************************)
\* C21: render_scanline returns in every state the driver can bring about,
\* whatever the LY register holds, and it replaces the frame-buffer row
\* numbered LY and leaves every other row as it was.
C21_RenderTotal ==
    op = "render" =>
        /\ ~panicked
        /\ Rd(prev.io, LY - IO_START) \in DOMAIN screen_buffer
        /\ \A j \in DOMAIN screen_buffer \ {Rd(prev.io, LY - IO_START)} :
               /\ j \in DOMAIN prev.screen_buffer
               /\ screen_buffer[j] = prev.screen_buffer[j]

(***************************************************************************)
(* A scripted driver of one hardware variant: it issues the writes of a    *)
(* script in order, choosing each value from the script's set, and then    *)
(* renders the scanline once                                               *)
(***************************************************************************)
ScriptWrite(script, mode) ==
    /\ oam_ptr < Len(script)
    /\ LET step == script[oam_ptr + 1]
       IN \E val \in step[2] : WriteVram(step[1], val, mode)
    /\ oam_ptr' = oam_ptr + 1
    /\ prev' = Self
    /\ UNCHANGED << n_writes, rd, all_dmg, frame, frame_no, written >>

ScriptRender(script, mode) ==
    /\ oam_ptr = Len(script)
    /\ screen_buffer = Empty
    /\ RenderScanline(mode)
    /\ prev' = Self
    /\ UNCHANGED << n_writes, oam_ptr, rd, all_dmg, frame, frame_no, written >>

(***************************************************************************)
(* The below-background specification: a monochrome driver that gives the  *)
(* background tile and the sprite tile a top row, picks the BGP, OBP0 and  *)
(* OBP1 palettes, places object-table entry 0 on scanline 0 above or below *)
(* the background, and renders scanline 0                                  *)
(***************************************************************************)
BelowScript ==
    << <<LCDC, {18, 19}>>,
       <<BGP, {0, 1, 228}>>,
       <<OBP0, {0, 228}>>, <<OBP1, {228}>>,
       <<TILE_SET, {0, 240}>>,
       <<TILE_SET + TILE_BYTES, {15, 255}>>,
       <<OAM_START, {16}>>, <<OAM_START + 1, {8, 10}>>,
       <<OAM_START + 2, {1}>>, <<OAM_START + 3, {0, 128, 144}>> >>

NextBelow == ScriptWrite(BelowScript, DMG) \/ ScriptRender(BelowScript, DMG)

SpecBelow == Init /\ [][NextBelow]_vars

(***************************************************************************)
(* Properties of sprites below the background                              *)
(***************************************************************************)
\* the background or window pixel render_scanline composited at column x
\* before the sprites
UnderSprites(x) ==
    LET row == screen_buffer[LyReg]
    IN IF row.wndw # None /\ x >= get_wndw_coords(prev).x
       THEN wndw_pixel(prev, row.wndw[1], w.mode, x)
       ELSE IF row.bkgd THEN bkgd_pixel(prev, LyReg, w.mode, x)
       ELSE BlankPixel

\* C22: on the monochrome variant a pixel of a drawn below-background sprite
\* with non-zero colour index is in the row exactly where the background or
\* window pixel has colour index 0, whatever BGP, OBP0 and OBP1 hold, and a
\* sprite pixel with colour index 0 is never in the row.
C22_BelowBackground ==
    (op = "render" /\ w.mode = DMG) =>
        \A i \in DrawnSprites, x \in 0..MaxCol :
            LET pixel == spr_pixel_at(prev, i, LyReg, DMG, x)
                in_row == screen_buffer[LyReg].pixels[x].src = <<"spr", i>>
            IN /\ pixel = 0 => ~in_row
               /\ (pixel # 0 /\ ~is_above_bkgd(prev, i)) =>
                      (in_row <=> UnderSprites(x).index = 0)

(***************************************************************************)
(* The cell-priority specification: a color driver that gives the          *)
(* background tile and the sprite tile a top row and background palette 0  *)
(* a second colour, places object-table entry 0 on scanline 0 above or     *)
(* below the background, optionally sets the priority bit of map cells 1   *)
(* and 12, and renders scanline 0                                          *)
(***************************************************************************)
CellScript ==
    << <<LCDC, {18, 19}>>,
       <<TILE_SET, {0, 255}>>,
       <<TILE_SET + TILE_BYTES + 1, {255}>>,
       <<BGPI, {2}>>, <<BGPD, {255}>>,
       <<OAM_START, {16}>>, <<OAM_START + 1, {8, 16}>>,
       <<OAM_START + 2, {1}>>, <<OAM_START + 3, {0, 128}>>,
       <<VBK, {1}>>,
       <<TILE_MAP + 1, {0, 128}>>, <<TILE_MAP + 12, {0, 128}>> >>

NextCell == ScriptWrite(CellScript, CGB) \/ ScriptRender(CellScript, CGB)

SpecCell == Init /\ [][NextCell]_vars

(***************************************************************************)
(* Properties of the background priority bit                               *)
(***************************************************************************)
\* the background map cell that covers column x of the scanline
CoveringCell(p, line, x) ==
    LET map_x == ((read_io(p, SCX) + x) % MAP_PIXELS) \div TILESIZE
        map_y == ((read_io(p, SCY) + line) % MAP_PIXELS) \div TILESIZE
    IN (map_y * MAP_SIZE + map_x) + get_bkgd_tile_map_index(p) * TILE_MAP_TBL_SIZE

\* C23: on the color variant with LCDC bit 0 set, a non-zero sprite pixel
\* over a map cell with the priority bit set is in the row only where the
\* background has colour index 0, over a cell with the bit clear the
\* sprite's own attribute decides, column by column; with LCDC bit 0 clear
\* every non-zero sprite pixel is in the row.
C23_CellPriority ==
    (op = "render" /\ w.mode = CGB) =>
        \A i \in DrawnSprites, x \in 0..MaxCol :
            LET pixel == spr_pixel_at(prev, i, LyReg, CGB, x)
                in_row == screen_buffer[LyReg].pixels[x].src = <<"spr", i>>
                cell == CoveringCell(prev, LyReg, x)
                bg_wins == \/ is_bg_priority(get_metadata(prev, cell))
                           \/ ~is_above_bkgd(prev, i)
            IN pixel # 0 =>
                   IF ~get_bit(read_io(prev, LCDC), BG_DISP_BIT) THEN in_row
                   ELSE IF bg_wins THEN (in_row <=> UnderSprites(x).index = 0)
                   ELSE in_row

(***************************************************************************)
(* The window-cell specification: a color driver that puts the window at   *)
(* the screen origin over the unscrolled background, both on the same map  *)
(* table, gives tile 0 a top row in both banks and background palettes 0   *)
(* and 1 a second colour, writes the metadata of map cell 0, selects a     *)
(* VRAM bank and renders scanline 0                                        *)
(***************************************************************************)
WndwCellScript ==
    << <<LCDC, {17, 49}>>,
       <<WX, {7}>>,
       <<TILE_SET, {240}>>,
       <<BGPI, {2}>>, <<BGPD, {31}>>,
       <<BGPI, {10}>>, <<BGPD, {31, 255}>>,
       <<VBK, {1}>>,
       <<TILE_SET, {15, 240}>>,
       <<TILE_MAP, {0, 1, 8, 32, 64}>>,
       <<VBK, {0, 1}>> >>

NextWndwCell ==
    ScriptWrite(WndwCellScript, CGB) \/ ScriptRender(WndwCellScript, CGB)

SpecWndwCell == Init /\ [][NextWndwCell]_vars

(***************************************************************************)
(* Properties of the window layer's pixels                                 *)
(***************************************************************************)
\* the window lies over the background cell for cell: origin at the top
\* left of the screen, no scroll, same map table, no continuation offset
WindowOverBackground ==
    /\ get_wndw_coords(prev) = [x |-> 0, y |-> 0]
    /\ read_io(prev, SCX) = 0 /\ read_io(prev, SCY) = 0
    /\ get_wndw_tile_map_index(prev) = get_bkgd_tile_map_index(prev)
    /\ screen_buffer[LyReg].wndw = Some(LyReg)
    /\ screen_buffer[LyReg].sprites = << >>

\* C24: on the color variant the window pixel produced from a map cell is
\* the pixel the background pipeline produces from that cell, tile row and
\* column, whatever the cell's metadata and whichever VRAM bank is selected.
C24_WindowLikeBackground ==
    (op = "render" /\ w.mode = CGB /\ ~panicked /\ WindowOverBackground) =>
        \A x \in 0..MaxCol :
            LET drawn == screen_buffer[LyReg].pixels[x]
                bkgd == bkgd_pixel(prev, LyReg, CGB, x)
            IN /\ drawn.src = <<"wndw", 0>>
               /\ drawn.color = bkgd.color
               /\ drawn.index = bkgd.index

(***************************************************************************)
(* The bank specification: a color driver that writes a tile byte and a    *)
(* map cell and selects VRAM banks through VBK, and reads the two          *)
(* addresses with every bank override                                      *)
(***************************************************************************)
BankAddrs == {TILE_SET + TILE_BYTES + 1, TILE_MAP + MAP_SIZE + 1}

BankWrites ==
    {<<a, v>> : a \in BankAddrs, v \in {1, 2}} \cup {<<VBK, v>> : v \in 0..3}

BankWrite ==
    /\ n_writes < MaxBankWrites
    /\ \E aw \in BankWrites :
           /\ WriteVram(aw[1], aw[2], CGB)
           /\ written' = IF aw[1] \in BankAddrs
                         THEN Wr(written, << aw[1], vram_bank >>, aw[2])
                         ELSE written
    /\ n_writes' = n_writes + 1
    /\ prev' = Self
    /\ rd' = NoRead
    /\ UNCHANGED << oam_ptr, all_dmg, frame, frame_no >>

BankRead ==
    /\ op = "write"
    /\ \E addr \in BankAddrs, bank \in BankChoices : ReadVram(addr, bank, CGB)
    /\ UNCHANGED << n_writes, oam_ptr, frame, frame_no, written >>

NextBank == BankWrite \/ BankRead

SpecBank == Init /\ [][NextBank]_vars

(***************************************************************************)
(* Properties of VRAM banking                                              *)
(***************************************************************************)
\* the bank a byte of the tile store belongs to
BankOfTileByte(k) == k \div (TILE_NUM * TILE_BYTES)

\* the tile-store byte that address a names in bank b
TileByteAt(a, b) == (a - TILE_SET) + b * TILE_NUM * TILE_BYTES

Changed(new, old) == {k \in DOMAIN new \cup DOMAIN old : Rd(new, k) # Rd(old, k)}

\* C25: on the color variant a write to VBK selects bank (v & 1) and the
\* selected bank is always 0 or 1; a tile-pattern write stores the value in
\* the byte of the selected bank and changes no other tile byte and no map
\* cell, a tile-map write stores the cell's tile index with bank 0 selected
\* and its metadata with bank 1 selected and changes nothing else, and
\* read(a, Some(b)) returns what was last written to a under bank b
\* whichever bank is selected.
C25_Banking ==
    /\ vram_bank \in {0, 1}
    /\ (op = "write" /\ w.mode = CGB /\ w.addr = VBK) => vram_bank = w.val % 2
    /\ (op = "write" /\ w.mode = CGB /\ InTileSet(w.addr)) =>
           LET k == TileByteAt(w.addr, prev.vram_bank)
           IN /\ Rd(tiles, k) = w.val
              /\ BankOfTileByte(k) = prev.vram_bank
              /\ Changed(tiles, prev.tiles) \subseteq {k}
              /\ tile_maps = prev.tile_maps
              /\ vram_bank = prev.vram_bank
    /\ (op = "write" /\ w.mode = CGB /\ InTileMap(w.addr)) =>
           LET cell == w.addr - TILE_MAP
               field == IF prev.vram_bank = 0 THEN "tile_num" ELSE "metadata"
           IN /\ Rd(tile_maps, << field, cell >>) = w.val
              /\ Changed(tile_maps, prev.tile_maps) \subseteq {<< field, cell >>}
              /\ tiles = prev.tiles
              /\ vram_bank = prev.vram_bank
    /\ (op = "read" /\ rd.mode = CGB /\ rd.bank # None
            /\ (InTileSet(rd.addr) \/ InTileMap(rd.addr))) =>
           /\ ~rd.fault
           /\ rd.val = Rd(written, << rd.addr, rd.bank[1] >>)

C25_Witness ==
    /\ op = "read"
    /\ rd.addr = TILE_SET + TILE_BYTES + 1
    /\ rd.bank = Some(1)
    /\ vram_bank = 0
    /\ rd.val = 2
    /\ Rd(tiles, TileByteAt(rd.addr, 0)) = 0

(***************************************************************************)
(* Properties of the coincidence flag                                      *)
(***************************************************************************)
\* C26: after an update call on which the scanline changed, STAT bit 2 is
\* set exactly if the LY register equals the LYC register, and STAT bits
\* 3-7 are as they were before the call.
C26_CoincidenceFlag ==
    (op = "update" /\ pre.line # Line) =>
        /\ get_bit(StatReg, LYC_LY_FLAG_BIT) <=> (LyReg = LycReg)
        /\ StatReg \div 8 = pre.stat \div 8

(***************************************************************************)
(* The frame-condition specification: a color driver that writes to the    *)
(* object table, the tile store, a map cell, the palette RAMs, the bank    *)
(* register and a scroll register and renders scanline 0, and then steps   *)
(* the clock half a scanline at a time round the frame                     *)
(***************************************************************************)
KeepWrites ==
    {OAM_START + 5, TILE_SET + TILE_BYTES + 1, TILE_MAP + MAP_SIZE + 1,
     SCY, VBK, BGPD, OBPD}

KeepWrite ==
    /\ ~had_update
    /\ n_writes < MaxKeepWrites
    /\ \E addr \in KeepWrites : WriteVram(addr, 1, CGB)
    /\ n_writes' = n_writes + 1
    /\ prev' = Self
    /\ UNCHANGED << oam_ptr, rd, all_dmg, frame, frame_no, written >>

KeepRender ==
    /\ ~had_update
    /\ screen_buffer = Empty
    /\ RenderScanline(CGB)
    /\ prev' = Self
    /\ UNCHANGED << n_writes, oam_ptr, rd, all_dmg, frame, frame_no, written >>

KeepUpdate ==
    /\ Update(LINE_CYCLES \div 2)
    /\ prev' = Self
    /\ UNCHANGED << n_writes, oam_ptr, rd, all_dmg, frame, frame_no, written >>

NextKeep == KeepWrite \/ KeepRender \/ KeepUpdate

SpecKeep == Init /\ [][NextKeep]_vars

(***************************************************************************)
(* Properties of what update leaves alone                                  *)
(***************************************************************************)
\* C27: an update call changes nothing but the mode state machine, the LY
\* and STAT registers and the window continuation marker: tiles, map cells,
\* the object table, both palette RAMs, the selected bank, the frame buffer
\* and every other I/O register are as before the call.
C27_UpdateFrame ==
    op = "update" =>
        /\ tiles = prev.tiles
        /\ tile_maps = prev.tile_maps
        /\ oam = prev.oam
        /\ cgb_bg_pal_data = prev.cgb_bg_pal_data
        /\ cgb_spr_pal_data = prev.cgb_spr_pal_data
        /\ vram_bank = prev.vram_bank
        /\ screen_buffer = prev.screen_buffer
        /\ Changed(io, prev.io) \subseteq {LY - IO_START, STAT - IO_START}

C27_Witness ==
    /\ op = "update"
    /\ tiles # Empty
    /\ oam # Empty
    /\ screen_buffer # Empty
    /\ LyReg # Rd(prev.io, LY - IO_START)
    /\ StatReg # Rd(prev.io, STAT - IO_START)

(***************************************************************************)
(* The liveness specification: a driver that writes the LYC and LY         *)
(* registers, sets STAT bit 6, and from then on only calls update, over    *)
(* and over, with a number of cycles that is never zero.  frame_no counts  *)
(* the frames completed since the last interrupt, up to MaxIdleFrames.     *)
(***************************************************************************)
LiveScript ==
    << <<LYC, {0, 1, NUM_LINES - 1, NUM_LINES}>>,
       <<LY, {0, 1}>>,
       <<STAT, {64}>> >>

LiveCycles == {LINE_CYCLES \div 3, LINE_CYCLES \div 2}

LiveWrite ==
    /\ oam_ptr < Len(LiveScript)
    /\ LET step == LiveScript[oam_ptr + 1]
       IN \E val \in step[2] : WriteVram(step[1], val, DMG)
    /\ oam_ptr' = oam_ptr + 1
    /\ prev' = Self
    /\ UNCHANGED << n_writes, rd, all_dmg, frame, frame_no, written >>

LiveUpdate ==
    /\ oam_ptr = Len(LiveScript)
    /\ \E cycles \in LiveCycles : Update(cycles)
    /\ frame_no' = IF interrupt' THEN 0
                   ELSE IF lcd_mode.line = NUM_LINES - 1 /\ lcd_mode'.line = 0
                   THEN Min(MaxIdleFrames, frame_no + 1)
                   ELSE frame_no
    /\ prev' = Self
    /\ UNCHANGED << n_writes, oam_ptr, rd, all_dmg, frame, written >>

NextLive == LiveWrite \/ LiveUpdate

\* the clock advanced by an update call, as LiveUpdate advances it
LiveClock ==
    /\ oam_ptr = Len(LiveScript)
    /\ \E cycles \in LiveCycles : lcd_mode' = lcd_step(lcd_mode, cycles)

SpecLive == Init /\ [][NextLive]_vars /\ WF_lcd_mode(LiveClock)

(***************************************************************************)
(* Properties of the coincidence interrupt over time                       *)
(***************************************************************************)
\* the driver has finished writing and left STAT bit 6 set
Armed == oam_ptr = Len(LiveScript) /\ get_bit(StatReg, LYC_LY_INTERRUPT_BIT)

CoincidenceIrq == op = "update" /\ interrupt /\ ly_irq

\* C28: with LYC in 0..153 and STAT bit 6 set, a driver that keeps calling
\* update and writes nothing gets an update call that returns the interrupt,
\* and gets one again in every later frame: two frames never complete
\* without one in between.  With LYC above 153 no update call ever returns
\* the coincidence interrupt.
C28_CoincidenceLive ==
    /\ [](Armed /\ LycReg < NUM_LINES => <>CoincidenceIrq)
    /\ [](Armed /\ LycReg < NUM_LINES => frame_no <= 1)
    /\ [](LycReg >= NUM_LINES => ~ly_irq)

C28_Witness ==
    /\ Armed
    /\ CoincidenceIrq
    /\ LycReg = NUM_LINES - 1
    /\ Line = LycReg
    /\ frame_no = 0
    /\ pre.line = NUM_LINES - 2

====
